---- MODULE Spec2Model ----
(***************************************************************************)
(* Profile-verification workflow of CAU Code.                              *)
(*                                                                         *)
(* The persisted state is the two tables of database/schemas/schema.sql    *)
(* (users, profile_verification) together with the SQL function            *)
(* cleanup_expired_sessions.  The client side is the status-check path of  *)
(* frontend/src/services/authService.js.  The REST backend (issuer, status *)
(* check, rate limiter, observer) is not part of the sources; it is        *)
(* modelled from the written specification of the workflow.                *)
(***************************************************************************)
EXTENDS Integers, FiniteSets, Sequences, TLC

(* ---------------------------- bounds ----------------------------------- *)
MaxReq == 2        \* number of rows the SERIAL id of profile_verification hands out
MaxTime == 3       \* the clock runs from StartTime to MaxTime
NumUsers == 2      \* users created by a first login (the seeded row is extra)
NumCodes == 2      \* size of the pool the random code is drawn from
MaxChecks == 2     \* manual status checks made from one VerifyAuth page
MaxTokens == 3     \* token pairs that are told apart at one time
MaxSetups == 2     \* calls of setupAxiosInterceptors in one page load
MaxCalls == 2      \* refresh calls counted for one request

(* ------------------------ configuration -------------------------------- *)
Window == 1        \* verification window, in clock ticks
LimitWindow == 2   \* length of the limit window, in clock ticks
DefaultRetryAfter == 60

NULL == 0
StartTime == NULL + 1   \* timestamps are positive, so that NULL differs from each of them
SeedUser == 0
LoginUsers == 1..NumUsers
UserIds == {SeedUser} \cup LoginUsers
Codes == 1..NumCodes
ReqIds == 1..MaxReq

\* a username is the sequence of its characters
ValidName == <<"a", "b", "_", "1">>
ShortName == <<"a", "b">>
BadCharName == <<"a", "-", "b", "c">>
Usernames == {ValidName, ShortName, BadCharName}

Terminal == {"verified", "expired", "failed"}
NoRow == [status |-> "none"]
NoUser == [exists |-> FALSE]

VARIABLES users, rows, nextId, now, rl, isess, csess, last, codeOf, ownerOf, lapsed, applied,
          auth, page, inbox, store, http, reqs, modal

\* the browser of one signed-in person: AuthContext state, the VerifyAuth
\* page, and the answers of status checks on their way to the page; its
\* localStorage, its axios client, the calls in flight and the submission modal
cvars == <<auth, page, inbox, store, http, reqs, modal>>

vars == <<users, rows, nextId, now, rl, isess, csess, last, codeOf, ownerOf, lapsed, applied,
          auth, page, inbox, store, http, reqs, modal>>

(* ------------------------------ schema --------------------------------- *)

\* users.profile_verified BOOLEAN DEFAULT FALSE
ProfileVerifiedDefaultMutant == TRUE
ProfileVerifiedDefault == FALSE

\* profile_verification.status VARCHAR(20) DEFAULT 'pending'
StatusDefault == "pending"

\* a row of users as a first login creates it: every column but the
\* identity takes its default
NewUser ==
    [exists |-> TRUE, solvedac_username |-> <<>>, profile_verified |-> ProfileVerifiedDefault]

\* INSERT INTO users (...) VALUES ('test_google_id_dlgusxor12', ..., 'dlgusxor12', TRUE)
SeedRow ==
    [exists |-> TRUE,
     solvedac_username |-> <<"d", "l", "g", "u", "s", "x", "o", "r", "1", "2">>,
     profile_verified |-> TRUE]

\* verification_code VARCHAR(100) NOT NULL UNIQUE: an insert of code c is
\* rejected when a stored row already carries c
CodeUniqueViolationMutant(rs, c) == FALSE
CodeUniqueViolation(rs, c) ==
    \E id \in ReqIds : rs[id] # NoRow /\ rs[id].verification_code = c

\* solvedac_username VARCHAR(50) UNIQUE on users: linking name n to user u is
\* rejected when another user already carries n
UsernameUniqueViolationMutant(us, u, n) == FALSE
UsernameUniqueViolation(us, u, n) ==
    \E v \in UserIds : v # u /\ us[v] # NoUser /\ us[v].solvedac_username = n

\* the row filter of DELETE FROM profile_verification
\*   WHERE expires_at < NOW() AND status = 'pending'
CleanupDeletesMutant(r, t) == r.expires_at < t
CleanupDeletes(r, t) == r.expires_at < t /\ r.status = "pending"

(* ------------------------------ helpers -------------------------------- *)

\* const usernameRegex = /^[a-zA-Z0-9_]{3,20}$/
UsernameChars ==
    {"a", "b", "c", "d", "e", "f", "g", "h", "i", "j", "k", "l", "m",
     "n", "o", "p", "q", "r", "s", "t", "u", "v", "w", "x", "y", "z",
     "A", "B", "C", "D", "E", "F", "G", "H", "I", "J", "K", "L", "M",
     "N", "O", "P", "Q", "R", "S", "T", "U", "V", "W", "X", "Y", "Z",
     "0", "1", "2", "3", "4", "5", "6", "7", "8", "9", "_"}
usernameRegexMutant(n) ==
    /\ Len(n) <= 20
    /\ \A i \in 1..Len(n) : n[i] \in UsernameChars
usernameRegex(n) ==
    /\ Len(n) >= 3
    /\ Len(n) <= 20
    /\ \A i \in 1..Len(n) : n[i] \in UsernameChars

RowOfCode(rs, c) ==
    IF \E id \in ReqIds : rs[id] # NoRow /\ rs[id].verification_code = c
    THEN CHOOSE id \in ReqIds : rs[id] # NoRow /\ rs[id].verification_code = c
    ELSE 0

Expired(r, t) == r.expires_at < t

\* requests that were pending when the clock passed their expires_at
LapsedIn(rs, t) ==
    {id \in ReqIds : rs[id] # NoRow /\ rs[id].status = "pending" /\ Expired(rs[id], t)}

NoOut == [success |-> FALSE, status |-> "none", expires_at |-> NULL, failed_reason |-> "",
          rateLimited |-> FALSE, retryAfter |-> 0, http |-> 0]

\* a sequence without its k-th element
Remove(seq, k) == SubSeq(seq, 1, k - 1) \o SubSeq(seq, k + 1, Len(seq))

\* the answer given by the step just taken (NoEvent when it answered nothing)
NoEvent == [op |-> "none"]
IssueEvent(u, result, id, c) ==
    [op |-> "issue", user |-> u, result |-> result, rid |-> id, code |-> c]
RejectEvent(u, n, result) ==
    [op |-> "issue", user |-> u, result |-> result, rid |-> 0, code |-> 0, name |-> n]
CheckEvent(rid, over, wasLapsed, wasTerminal, hadNewer, observed, wrote, out) ==
    [op |-> "check", rid |-> rid, over |-> over, wasLapsed |-> wasLapsed,
     wasTerminal |-> wasTerminal, hadNewer |-> hadNewer, observed |-> observed,
     wrote |-> wrote, out |-> out]

(* --------------------------- browser: state ---------------------------- *)

\* the person at the browser
ClientUser == 1

\* state.user: null, or the user object the server sent
NullUser == [present |-> FALSE, profile_verified |-> FALSE]
UserObj(v) == [present |-> TRUE, profile_verified |-> v]

\* state.verificationStatus: null, undefined, or the data of an answer
Null == [kind |-> "null"]
Undefined == [kind |-> "undefined"]
Data(r) ==
    IF r.success
    THEN [kind |-> "data", status |-> r.status, expires_at |-> r.expires_at]
    ELSE Undefined

initialAuthState ==
    [isAuthenticated |-> FALSE, isLoading |-> TRUE, user |-> NullUser,
     verificationStatus |-> Null, op |-> "none"]

authReducer(state, action) ==
    CASE action.type = "LOADING" ->
           [state EXCEPT !.isLoading = action.payload]
      [] action.type = "LOGIN_SUCCESS" ->
           [state EXCEPT !.isAuthenticated = TRUE, !.isLoading = FALSE,
                         !.user = action.payload]
      [] action.type = "LOGIN_FAILURE" ->
           [state EXCEPT !.isAuthenticated = FALSE, !.isLoading = FALSE,
                         !.user = NullUser]
      [] action.type = "LOGOUT" ->
           [state EXCEPT !.isAuthenticated = FALSE, !.isLoading = FALSE,
                         !.user = NullUser, !.verificationStatus = Null]
      [] action.type = "UPDATE_USER" ->
           [state EXCEPT !.user = action.payload]
      [] action.type = "SET_VERIFICATION_STATUS" ->
           [state EXCEPT !.verificationStatus = action.payload]
      [] OTHER -> state

\* isProfileVerified: state.user?.profile_verified || false
isProfileVerified(state) == state.user.present /\ state.user.profile_verified

\* what a route guard renders: the spinner, a redirect target, or its children
ProtectedRouteMutant(ctx, requireProfileVerification) ==
    IF ctx.isLoading THEN "spinner"
    ELSE IF ~ctx.isAuthenticated THEN "/login"
    ELSE "children"
ProtectedRoute(ctx, requireProfileVerification) ==
    IF ctx.isLoading THEN "spinner"
    ELSE IF ~ctx.isAuthenticated THEN "/login"
    ELSE IF requireProfileVerification /\ ~isProfileVerified(ctx) THEN "/auth/solvedac"
    ELSE "children"

PublicOnlyRoute(ctx) ==
    IF ctx.isLoading THEN "spinner"
    ELSE IF ctx.isAuthenticated THEN "/"
    ELSE "children"

UnverifiedOnlyRouteMutant(ctx) ==
    IF ctx.isLoading THEN "spinner"
    ELSE IF ~ctx.isAuthenticated THEN "/login"
    ELSE IF ~isProfileVerified(ctx) THEN "/"
    ELSE "children"
UnverifiedOnlyRoute(ctx) ==
    IF ctx.isLoading THEN "spinner"
    ELSE IF ~ctx.isAuthenticated THEN "/login"
    ELSE IF isProfileVerified(ctx) THEN "/"
    ELSE "children"

\* the routes of App
VerifiedPaths == {"/", "/problems", "/guide", "/feedback", "/ranking", "/profile", "/settings"}
App(ctx, path) ==
    CASE path = "/login" -> PublicOnlyRoute(ctx)
      [] path = "/auth/solvedac" -> UnverifiedOnlyRoute(ctx)
      [] path = "/auth/verify" -> ProtectedRoute(ctx, FALSE)
      [] path \in VerifiedPaths -> ProtectedRoute(ctx, TRUE)

\* the VerifyAuth page: not yet opened ("none"), mounted, or left; its status
\* and timeLeft state, the number of countdown intervals that run and the
\* expires_at they count down to, the pending setTimeout of navigate('/'),
\* and the number of manual checks made
NoPage ==
    [phase |-> "none", rid |-> 0, status |-> "checking", timeLeft |-> NULL,
     timers |-> 0, expiresAt |-> NULL, navTimer |-> FALSE, checks |-> 0]

\* the page handled answer r; shown and held are the page's status and the
\* context's verificationStatus before it, at the clock of the browser
ReceiveEvent(r, shown, held, mounted, at) ==
    [op |-> "receive", rid |-> 0, out |-> r, shown |-> shown, held |-> held,
     mounted |-> mounted, at |-> at]
CountdownEvent(shown, expiresAt, at) ==
    [op |-> "countdown", rid |-> 0, shown |-> shown, expiresAt |-> expiresAt, at |-> at]
SubmitEvent(n) == [op |-> "submit", rid |-> 0, name |-> n]
LogoutEvent(result) == [op |-> "logout", rid |-> 0, result |-> result]

\* localStorage: cau_code_access_token, cau_code_refresh_token, cau_code_user;
\* a token pair is named by a number, and a user item that JSON.parse rejects
\* (the text "undefined" that setItem stores for a missing user) is Unparsable
TokenIds == 1..MaxTokens
Unparsable == [present |-> TRUE, profile_verified |-> FALSE, raw |-> "undefined"]
NoStore == [accessToken |-> NULL, refreshToken |-> NULL, user |-> NullUser]
setTokens(accessToken, refreshToken, user) ==
    [accessToken |-> accessToken, refreshToken |-> refreshToken, user |-> user]
clearTokensMutant(st) == [st EXCEPT !.accessToken = NULL, !.refreshToken = NULL]
clearTokens(st) == NoStore

\* apiClient: the number of response interceptors setupAxiosInterceptors has
\* registered, the default Authorization header, whether
\* window.location.href = '/login' has been assigned, and the isInitialized
\* ref of AuthProvider
NoClient == [interceptors |-> 0, header |-> NULL, navigating |-> FALSE,
             isInitialized |-> FALSE]
setupAxiosInterceptors(ht, st) ==
    [ht EXCEPT !.interceptors = @ + 1,
               !.header = IF st.accessToken # NULL THEN st.accessToken ELSE @]

\* the calls made through apiClient that the model follows: GET /auth/me of
\* initializeAuth and POST /auth/logout. A call is idle, sent, waiting for the
\* refresh call an interceptor made for it (refreshing), sent again (retrying),
\* or settled with a result; retry is config._retry, stage the interceptor
\* that made the refresh call, used the refresh token that call carries
Calls == {"me", "logout"}
Answers == {"ok", "401", "error"}
NoCall == [pc |-> "idle", retry |-> FALSE, stage |-> 0, result |-> "none",
           used |-> NULL, refreshes |-> 0, retries |-> 0]
Sent == [NoCall EXCEPT !.pc = "sent"]

\* the test of the response interceptor on an error whose config carries
\* _retry = err.retry
InterceptsMutant(err) == err.status = "401"
Intercepts(err) == err.status = "401" /\ ~err.retry

\* the error passes the interceptors i..n in order: the first that answers it
\* with a refresh call, or 0 when every one rejects it on
RECURSIVE RunInterceptors(_, _, _)
RunInterceptors(i, n, err) ==
    IF i > n THEN 0
    ELSE IF Intercepts(err) THEN i
    ELSE RunInterceptors(i + 1, n, err)

\* an error with this status, whose config carries _retry = flag, enters the
\* chain of call q at interceptor from: the call settles with the error, or an
\* interceptor sets _retry and calls refreshAccessToken, which throws at once
\* (clearTokens, then the redirect to /login) when no refresh token is stored
Reject(q, st, ht, status, flag, from) ==
    LET j == RunInterceptors(from, ht.interceptors, [status |-> status, retry |-> flag])
    IN  IF j = 0 \/ q.refreshes >= MaxCalls
        THEN [req |-> [q EXCEPT !.pc = "settled", !.result = status],
              store |-> st, http |-> ht]
        ELSE IF st.refreshToken = NULL
        THEN [req |-> [q EXCEPT !.pc = "settled", !.result = "error", !.retry = TRUE],
              store |-> clearTokens(st),
              http |-> [ht EXCEPT !.navigating = TRUE]]
        ELSE [req |-> [q EXCEPT !.pc = "refreshing", !.retry = TRUE, !.stage = j,
                                !.used = st.refreshToken, !.refreshes = @ + 1],
              store |-> st, http |-> ht]

\* SubmissionModal: isOpen, submissionType, status, and whether the answer of
\* handleSubmission's request is still awaited
NoModal == [isOpen |-> FALSE, submissionType |-> "feedback", status |-> "verifying",
            awaiting |-> FALSE]

(* ------------------------------- Init ---------------------------------- *)

Init ==
    /\ users = [u \in UserIds |-> IF u = SeedUser THEN SeedRow ELSE NoUser]
    /\ rows = [id \in ReqIds |-> NoRow]
    /\ nextId = 1
    /\ now = StartTime
    /\ rl = {}
    /\ isess = <<>>
    /\ csess = <<>>
    /\ last = NoEvent
    /\ codeOf = [id \in ReqIds |-> 0]
    /\ ownerOf = [id \in ReqIds |-> 0]
    /\ lapsed = {}
    /\ applied = [id \in ReqIds |-> 0]
    /\ auth = initialAuthState
    /\ page = NoPage
    /\ inbox = {}
    /\ store = NoStore
    /\ http = NoClient
    /\ reqs = [k \in Calls |-> NoCall]
    /\ modal = NoModal

(* ------------------------------ actions -------------------------------- *)

\* first external-auth login of user u creates the users row
FirstLogin(u) ==
    /\ users[u] = NoUser
    /\ \A v \in LoginUsers : v < u => users[v] # NoUser
    /\ users' = [users EXCEPT ![u] = NewUser]
    /\ last' = NoEvent
    /\ UNCHANGED <<rows, nextId, now, rl, isess, csess, codeOf, ownerOf, lapsed, applied>>

\* the clock advances; the limit window is the clock bucket now \div LimitWindow,
\* and a new window restores the allowance of every code
Tick ==
    /\ now < MaxTime
    /\ now' = now + 1
    /\ rl' = IF (now + 1) % LimitWindow = 0 THEN {} ELSE rl
    /\ lapsed' = lapsed \cup LapsedIn(rows, now + 1)
    /\ last' = NoEvent
    /\ UNCHANGED <<users, rows, nextId, isess, csess, codeOf, ownerOf, applied>>

\* SELECT cleanup_expired_sessions()
cleanup_expired_sessions ==
    /\ \E id \in ReqIds : rows[id] # NoRow /\ CleanupDeletes(rows[id], now)
    /\ rows' = [id \in ReqIds |->
                  IF rows[id] # NoRow /\ CleanupDeletes(rows[id], now) THEN NoRow ELSE rows[id]]
    /\ last' = NoEvent
    /\ UNCHANGED <<users, nextId, now, rl, isess, csess, codeOf, ownerOf, lapsed, applied>>


(* --------------------------- verification issuer ----------------------- *)

\* expiry is a fixed duration after issuance
ExpiresAtMutant(t) == t
ExpiresAt(t) == t + Window

NewRow(u, n, c, t) ==
    [user_id |-> u, verification_code |-> c, solvedac_username |-> n,
     status |-> StatusDefault, created_at |-> t, expires_at |-> ExpiresAt(t),
     verified_at |-> NULL, failed_reason |-> ""]

\* supersession: every pending request of user u is invalidated
Supersede(rs, u) ==
    [id \in ReqIds |->
        IF rs[id] # NoRow /\ rs[id].user_id = u /\ rs[id].status = "pending"
        THEN [rs[id] EXCEPT !.status = "expired"]
        ELSE rs[id]]

\* the codes a random draw is told apart by: a code that was issued before, or
\* a code that never was (all of those behave alike; the least stands for them)
Issued(hist) == {hist[id] : id \in ReqIds} \ {0}
Draws(hist) ==
    Issued(hist) \cup {c \in Codes \ Issued(hist) : \A d \in Codes \ Issued(hist) : c <= d}

InFlightInserts == Len(isess)

\* request verification, first statement: validate, then supersede the
\* user's pending requests; at most cap operations are in progress at a time
IssueSupersede(u, n, cap) ==
    /\ Len(isess) < cap
    /\ users[u] # NoUser
    /\ nextId + InFlightInserts <= MaxReq
    /\ IF ~usernameRegex(n)
       THEN /\ last' = RejectEvent(u, n, "InvalidUsername")
            /\ UNCHANGED <<rows, isess>>
       ELSE IF users[u].profile_verified
       THEN /\ last' = RejectEvent(u, n, "AlreadyVerified")
            /\ UNCHANGED <<rows, isess>>
       ELSE /\ isess' = Append(isess, [user |-> u, name |-> n])
            /\ rows' = Supersede(rows, u)
            /\ last' = NoEvent
    /\ UNCHANGED <<users, nextId, now, rl, csess, codeOf, ownerOf, lapsed, applied>>

\* request verification, second statement: the k-th operation in progress
\* inserts the new request under a random code; the UNIQUE constraint rejects
\* a code that is already stored
IssueInsert(k) ==
    /\ k \in 1..Len(isess)
    /\ nextId <= MaxReq
    /\ \E c \in Draws(codeOf) :
          IF CodeUniqueViolation(rows, c)
          THEN /\ last' = IssueEvent(isess[k].user, "error", 0, 0)
               /\ UNCHANGED <<rows, nextId, codeOf, ownerOf>>
          ELSE /\ rows' = [rows EXCEPT ![nextId] =
                              NewRow(isess[k].user, isess[k].name, c, now)]
               /\ nextId' = nextId + 1
               /\ codeOf' = [codeOf EXCEPT ![nextId] = c]
               /\ ownerOf' = [ownerOf EXCEPT ![nextId] = isess[k].user]
               /\ last' = IssueEvent(isess[k].user, "issued", nextId, c)
    /\ isess' = Remove(isess, k)
    /\ UNCHANGED <<users, now, rl, csess, lapsed, applied>>

\* periodic sweep: pending requests past their expiry become expired
Sweep ==
    /\ LapsedIn(rows, now) # {}
    /\ rows' = [id \in ReqIds |->
                  IF id \in LapsedIn(rows, now) THEN [rows[id] EXCEPT !.status = "expired"]
                  ELSE rows[id]]
    /\ last' = NoEvent
    /\ UNCHANGED <<users, nextId, now, rl, isess, csess, codeOf, ownerOf, lapsed, applied>>

(* ------------------------ status check: client ------------------------- *)

Resp200(r) ==
    [http |-> 200, status |-> r.status, expires_at |-> r.expires_at,
     failed_reason |-> r.failed_reason, window_seconds |-> NULL]
Resp429(ws) ==
    [http |-> 429, status |-> "none", expires_at |-> NULL, failed_reason |-> "",
     window_seconds |-> ws]
RespError(h) ==
    [http |-> h, status |-> "none", expires_at |-> NULL, failed_reason |-> "",
     window_seconds |-> NULL]

\* AuthService.checkVerificationStatus: what the client makes of the answer
checkVerificationStatusMutant(resp) ==
    IF resp.http = 200
    THEN [NoOut EXCEPT !.success = TRUE, !.status = resp.status,
                       !.expires_at = resp.expires_at,
                       !.failed_reason = resp.failed_reason, !.http = 200]
    ELSE [NoOut EXCEPT !.http = resp.http]
checkVerificationStatus(resp) ==
    IF resp.http = 200
    THEN [NoOut EXCEPT !.success = TRUE, !.status = resp.status,
                       !.expires_at = resp.expires_at,
                       !.failed_reason = resp.failed_reason, !.http = 200]
    ELSE IF resp.http = 429
    THEN [NoOut EXCEPT !.rateLimited = TRUE,
                       !.retryAfter = IF resp.window_seconds # NULL
                                      THEN resp.window_seconds ELSE DefaultRetryAfter,
                       !.http = 429]
    ELSE [NoOut EXCEPT !.http = resp.http]

(* ------------------------ status check: server ------------------------- *)

ObserverOutcomes == {"found", "absent", "not_found", "transient"}

\* rate limiter: the check is refused once the checks admitted for the code in
\* the current limit window have used up its allowance of N checks (N >= 1 is
\* not fixed: each admitted check may be the N-th)
RateLimited(full, c) == c \in full

\* a stored terminal status is answered as it is, without asking the observer
IsTerminalMutant(st) == st = "verified"
IsTerminal(st) == st \in Terminal

\* guard of the pending -> verified write: only a request that is still
\* pending and not past its expiry is verified
MayVerifyMutant(r, t) == TRUE
MayVerify(r, t) == r.status = "pending" /\ ~Expired(r, t)

\* guard of the pending -> failed write
MayFailMutant(r, t) == FALSE
MayFail(r, t) == r.status = "pending" /\ ~Expired(r, t)

\* lazy expiry on a status check
MustExpire(r, t) == r.status = "pending" /\ Expired(r, t)

\* side effects of pending -> verified on the owning user
VerifyUserMutant(us, u, n) == [us EXCEPT ![u].solvedac_username = n]
VerifyUser(us, u, n) ==
    [us EXCEPT ![u].profile_verified = TRUE, ![u].solvedac_username = n]

\* POST /auth/check-verification, up to the call of the external observer; at
\* most cap calls are in progress at a time
CheckStart(rid, cap) ==
    /\ Len(csess) < cap
    /\ rid < nextId
    /\ LET c == codeOf[rid]
           id == RowOfCode(rows, c)
           wasTerminal == IF rows[rid].status \in Terminal THEN rows[rid].status ELSE "none"
           hadNewer == \E id2 \in ReqIds : id2 > rid /\ id2 < nextId
                                            /\ ownerOf[id2] = ownerOf[rid]
           done(resp, wrote) ==
               CheckEvent(rid, c \in rl, rid \in lapsed, wasTerminal, hadNewer,
                          "none", wrote, checkVerificationStatus(resp))
       IN  IF RateLimited(rl, c)
           THEN /\ \E ws \in {NULL, LimitWindow} : last' = done(Resp429(ws), FALSE)
                /\ UNCHANGED <<rows, rl, csess>>
           ELSE /\ \E nth \in BOOLEAN : rl' = IF nth THEN rl \cup {c} ELSE rl
                /\ IF id = 0
                   THEN /\ last' = done(RespError(404), FALSE)
                        /\ UNCHANGED <<rows, csess>>
                   ELSE IF MustExpire(rows[id], now)
                   THEN /\ rows' = [rows EXCEPT ![id].status = "expired"]
                        /\ last' = done(Resp200(rows'[id]), TRUE)
                        /\ csess' = csess
                   ELSE IF IsTerminal(rows[id].status)
                   THEN /\ last' = done(Resp200(rows[id]), FALSE)
                        /\ UNCHANGED <<rows, csess>>
                   ELSE /\ csess' = Append(csess,
                                        [rid |-> rid, code |-> c,
                                         wasLapsed |-> rid \in lapsed,
                                         wasTerminal |-> wasTerminal,
                                         hadNewer |-> hadNewer])
                        /\ last' = NoEvent
                        /\ rows' = rows
    /\ UNCHANGED <<users, nextId, now, isess, codeOf, ownerOf, lapsed, applied>>

\* the observer answers with outcome o; the transition is written under its guard
CheckFinish(k, o) ==
    /\ k \in 1..Len(csess)
    /\ LET c == csess[k].code
           id == RowOfCode(rows, c)
           done(resp, wrote) ==
               CheckEvent(csess[k].rid, FALSE, csess[k].wasLapsed, csess[k].wasTerminal,
                          csess[k].hadNewer, o, wrote, checkVerificationStatus(resp))
       IN  IF o = "transient"
           THEN /\ last' = done(RespError(503), FALSE)
                /\ UNCHANGED <<rows, users, applied>>
           ELSE IF id = 0
           THEN /\ last' = done(RespError(404), FALSE)
                /\ UNCHANGED <<rows, users, applied>>
           ELSE IF o = "found" /\ MayVerify(rows[id], now)
           THEN IF UsernameUniqueViolation(users, rows[id].user_id,
                                           rows[id].solvedac_username)
                THEN /\ last' = done(RespError(500), FALSE)
                     /\ UNCHANGED <<rows, users, applied>>
                ELSE /\ rows' = [rows EXCEPT ![id].status = "verified",
                                             ![id].verified_at = now]
                     /\ users' = VerifyUser(users, rows[id].user_id,
                                            rows[id].solvedac_username)
                     /\ applied' = [applied EXCEPT ![id] = @ + 1]
                     /\ last' = done(Resp200(rows'[id]), TRUE)
           ELSE IF o = "not_found" /\ MayFail(rows[id], now)
           THEN /\ rows' = [rows EXCEPT ![id].status = "failed",
                                        ![id].failed_reason = "profile not found"]
                /\ last' = done(Resp200(rows'[id]), TRUE)
                /\ UNCHANGED <<users, applied>>
           ELSE IF MustExpire(rows[id], now)
           THEN /\ rows' = [rows EXCEPT ![id].status = "expired"]
                /\ last' = done(Resp200(rows'[id]), TRUE)
                /\ UNCHANGED <<users, applied>>
           ELSE /\ last' = done(Resp200(rows[id]), FALSE)
                /\ UNCHANGED <<rows, users, applied>>
    /\ csess' = Remove(csess, k)
    /\ UNCHANGED <<nextId, now, rl, isess, codeOf, ownerOf, lapsed>>

(* --------------------------- browser: actions -------------------------- *)

\* a step of the server leaves the browser as it is
ClientIdle == UNCHANGED cvars

ServerIdle ==
    UNCHANGED <<users, rows, nextId, now, rl, isess, csess, codeOf, ownerOf, lapsed, applied>>

\* the steps that leave localStorage, the axios client, its calls and the
\* submission modal as they are
SessionIdle == UNCHANGED <<store, http, reqs, modal>>

\* what initializeAuth dispatches last before its await: LOGIN_SUCCESS with the
\* stored user, or LOADING false when no access token is stored, when no user
\* is stored, and from its catch when JSON.parse of the stored user throws
initializeAuthDispatchMutant(st) ==
    IF st.accessToken = NULL THEN [type |-> "LOADING", payload |-> FALSE]
    ELSE IF st.user = Unparsable THEN [type |-> "LOADING", payload |-> TRUE]
    ELSE IF st.user = NullUser THEN [type |-> "LOADING", payload |-> FALSE]
    ELSE [type |-> "LOGIN_SUCCESS", payload |-> st.user]
initializeAuthDispatch(st) ==
    IF st.accessToken = NULL THEN [type |-> "LOADING", payload |-> FALSE]
    ELSE IF st.user = Unparsable THEN [type |-> "LOADING", payload |-> FALSE]
    ELSE IF st.user = NullUser THEN [type |-> "LOADING", payload |-> FALSE]
    ELSE [type |-> "LOGIN_SUCCESS", payload |-> st.user]

\* the effect of AuthProvider, run once per page load: with a stored access
\* token authService.initializeAuth sets the header and the interceptors, and
\* with a stored user the effect goes on to GET /auth/me
initializeAuth ==
    /\ ~http.isInitialized
    /\ auth' = authReducer(auth, initializeAuthDispatch(store))
    /\ http' = [(IF store.accessToken # NULL THEN setupAxiosInterceptors(http, store)
                 ELSE http) EXCEPT !.isInitialized = TRUE]
    /\ reqs' = IF initializeAuthDispatch(store).type = "LOGIN_SUCCESS"
               THEN [reqs EXCEPT !["me"] = Sent] ELSE reqs
    /\ last' = NoEvent
    /\ UNCHANGED <<page, inbox, store, modal>>
    /\ ServerIdle

\* handleGoogleLogin up to its await: LOADING true
handleGoogleLogin ==
    /\ auth.op = "none"
    /\ App(auth, "/login") = "children"
    /\ auth' = [authReducer(auth, [type |-> "LOADING", payload |-> TRUE])
                  EXCEPT !.op = "login"]
    /\ last' = NoEvent
    /\ UNCHANGED <<page, inbox>>
    /\ SessionIdle
    /\ ServerIdle

\* a token pair that nothing in the browser holds
TokensInUse ==
    {store.accessToken, store.refreshToken, http.header} \cup {reqs[k].used : k \in Calls}
FreshToken ==
    CHOOSE t \in TokenIds \ TokensInUse : \A t2 \in TokenIds \ TokensInUse : t <= t2

\* handleGoogleLogin after its await: authService.googleLogin has stored the
\* tokens and the user and called setupAxiosInterceptors, then LOGIN_SUCCESS
\* with the user the server sent; or LOGIN_FAILURE
LoginAnswered(ok) ==
    /\ auth.op = "login"
    /\ ok => /\ users[ClientUser] # NoUser
             /\ TokenIds \ TokensInUse # {}
             /\ http.interceptors < MaxSetups
    /\ auth' = [authReducer(auth,
                     IF ok
                     THEN [type |-> "LOGIN_SUCCESS",
                           payload |-> UserObj(users[ClientUser].profile_verified)]
                     ELSE [type |-> "LOGIN_FAILURE"])
                  EXCEPT !.op = "none"]
    /\ store' = IF ok THEN setTokens(FreshToken, FreshToken,
                                     UserObj(users[ClientUser].profile_verified))
                ELSE store
    /\ http' = IF ok THEN setupAxiosInterceptors(http, store') ELSE http
    /\ last' = NoEvent
    /\ UNCHANGED <<page, inbox, reqs, modal>>
    /\ ServerIdle

\* the effect cleanup of VerifyAuth clears the interval countdownIntervalRef
\* holds, which is the one started last
Unmounted(p) ==
    [p EXCEPT !.phase = "left", !.timers = IF @ > 0 THEN @ - 1 ELSE 0]

\* handleLogout up to its await: LOADING true, and every guarded route shows
\* the spinner in place of its page
LogoutStarts ==
    /\ auth.op = "none"
    /\ auth' = [authReducer(auth, [type |-> "LOADING", payload |-> TRUE])
                  EXCEPT !.op = "logout"]
    /\ page' = IF page.phase = "mounted" THEN Unmounted(page) ELSE page
    /\ modal' = NoModal
    /\ UNCHANGED <<inbox, http, store>>
    /\ ServerIdle

handleLogout ==
    /\ ProtectedRoute(auth, FALSE) = "children"
    /\ LogoutStarts
    /\ reqs' = IF store.accessToken # NULL THEN [reqs EXCEPT !["logout"] = Sent]
               ELSE reqs
    /\ last' = NoEvent

\* handleLogout after its await: authService.logout's finally has cleared the
\* storage and the header whatever the call answered, then LOGOUT
LogoutDone ==
    /\ auth.op = "logout"
    /\ reqs["logout"].pc \in {"idle", "settled"}
    /\ auth' = [authReducer(auth, [type |-> "LOGOUT"]) EXCEPT !.op = "none"]
    /\ store' = clearTokens(store)
    /\ http' = [http EXCEPT !.header = NULL]
    /\ reqs' = [reqs EXCEPT !["logout"] = NoCall]
    /\ last' = LogoutEvent(reqs["logout"].result)
    /\ UNCHANGED <<page, inbox, modal>>
    /\ ServerIdle

\* the answer o of the server to a call reaches the response interceptors
Answered(k, o) ==
    /\ reqs[k].pc = "sent"
    /\ LET e == IF o = "ok"
                THEN [req |-> [reqs[k] EXCEPT !.pc = "settled", !.result = "ok"],
                      store |-> store, http |-> http]
                ELSE Reject(reqs[k], store, http, o, reqs[k].retry, 1)
       IN  /\ reqs' = [reqs EXCEPT ![k] = e.req]
           /\ store' = e.store
           /\ http' = e.http
    /\ last' = NoEvent
    /\ UNCHANGED <<auth, page, inbox, modal>>
    /\ ServerIdle

\* the answer to the refresh call made for call k. ok: refreshAccessToken stores
\* the new tokens and the user of the answer (setItem stores "undefined" when
\* the answer carries none), the interceptor sets the header and sends the
\* call again. Otherwise the error passes the interceptors with the refresh
\* call's own config (_retry: true), refreshAccessToken's catch clears the
\* storage, the interceptor assigns window.location.href and rejects on
RefreshAnswered(k, o, hasUser) ==
    /\ reqs[k].pc = "refreshing"
    /\ hasUser \/ o = "ok"
    /\ IF o = "ok"
       THEN /\ TokenIds \ TokensInUse # {}
            /\ store' = setTokens(FreshToken, FreshToken,
                                  IF hasUser
                                  THEN UserObj(users[ClientUser].profile_verified)
                                  ELSE Unparsable)
            /\ http' = [http EXCEPT !.header = FreshToken]
            /\ reqs' = [reqs EXCEPT ![k].pc = "retrying", ![k].retries = @ + 1]
       ELSE IF /\ RunInterceptors(1, http.interceptors,
                                   [status |-> o, retry |-> TRUE]) # 0
               /\ reqs[k].refreshes < MaxCalls
       THEN /\ reqs' = [reqs EXCEPT ![k].refreshes = @ + 1]
            /\ UNCHANGED <<store, http>>
       ELSE LET e == Reject(reqs[k], clearTokens(store),
                            [http EXCEPT !.navigating = TRUE],
                            o, TRUE, reqs[k].stage + 1)
            IN  /\ reqs' = [reqs EXCEPT ![k] = e.req]
                /\ store' = e.store
                /\ http' = e.http
    /\ last' = [op |-> "refresh", rid |-> 0, call |-> k, ok |-> o = "ok",
                used |-> reqs[k].used, held |-> store.refreshToken]
    /\ UNCHANGED <<auth, page, inbox, modal>>
    /\ ServerIdle

\* the answer to the call sent again: its config carries _retry
RetryAnswered(k, o) ==
    /\ reqs[k].pc = "retrying"
    /\ LET e == IF o = "ok"
                THEN [req |-> [reqs[k] EXCEPT !.pc = "settled", !.result = "ok"],
                      store |-> store, http |-> http]
                ELSE Reject(reqs[k], store, http, o, TRUE, 1)
       IN  /\ reqs' = [reqs EXCEPT ![k] = e.req]
           /\ store' = e.store
           /\ http' = e.http
    /\ last' = NoEvent
    /\ UNCHANGED <<auth, page, inbox, modal>>
    /\ ServerIdle

\* initializeAuth after its await of getCurrentUser: the user of the answer is
\* written to localStorage and dispatched with UPDATE_USER; an error with
\* status 401 calls handleLogout, any other is only logged. A 401 that arrives
\* while a login or a logout is under way is handled once that has ended.
getCurrentUserAnswered ==
    /\ reqs["me"].pc = "settled"
    /\ CASE reqs["me"].result = "ok" ->
              /\ store' = [store EXCEPT !.user = UserObj(users[ClientUser].profile_verified)]
              /\ auth' = authReducer(auth, [type |-> "UPDATE_USER",
                                            payload |-> UserObj(users[ClientUser].profile_verified)])
              /\ reqs' = [reqs EXCEPT !["me"] = NoCall]
              /\ UNCHANGED <<page, inbox, http, modal>>
              /\ ServerIdle
         [] reqs["me"].result = "401" ->
              /\ LogoutStarts
              /\ reqs' = [(IF store.accessToken # NULL
                           THEN [reqs EXCEPT !["logout"] = Sent] ELSE reqs)
                            EXCEPT !["me"] = NoCall]
         [] OTHER ->
              /\ reqs' = [reqs EXCEPT !["me"] = NoCall]
              /\ UNCHANGED <<auth, page, inbox, store, http, modal>>
              /\ ServerIdle
    /\ last' = NoEvent

\* the page is loaded anew, by the reader or by window.location.href: the
\* script's state and its calls are gone, localStorage stays
Reload ==
    /\ auth' = initialAuthState
    /\ page' = NoPage
    /\ inbox' = {}
    /\ http' = NoClient
    /\ reqs' = [k \in Calls |-> NoCall]
    /\ modal' = NoModal
    /\ last' = NoEvent
    /\ store' = store
    /\ ServerIdle

\* Guide.handleSubmit: the modal opens and its effect calls handleSubmission
handleSubmit(type) ==
    /\ App(auth, "/guide") = "children"
    /\ ~modal.isOpen
    /\ modal' = [isOpen |-> TRUE, submissionType |-> type, status |-> "verifying",
                 awaiting |-> TRUE]
    /\ last' = NoEvent
    /\ UNCHANGED <<auth, page, inbox, store, http, reqs>>
    /\ ServerIdle

\* the status handleSubmission sets after its await: the answer carries status
\* 'success' (and is_solved for a solve), carries another status, or the
\* request threw
handleSubmission(m, resp, solved) ==
    CASE resp = "throws" -> "error"
      [] resp = "success" /\ m.submissionType = "feedback" -> "success"
      [] resp = "success" /\ m.submissionType = "solve" ->
            IF solved THEN "success" ELSE "error"
      [] OTHER -> m.status

ModalAnswered(resp, solved) ==
    /\ modal.awaiting
    /\ modal' = [modal EXCEPT !.status = handleSubmission(modal, resp, solved),
                              !.awaiting = FALSE]
    /\ last' = NoEvent
    /\ UNCHANGED <<auth, page, inbox, store, http, reqs>>
    /\ ServerIdle

\* the buttons of the modal are rendered for success and error only
handleClose ==
    /\ modal.isOpen
    /\ modal.status \in {"success", "error"}
    /\ modal' = [modal EXCEPT !.isOpen = FALSE]
    /\ last' = NoEvent
    /\ UNCHANGED <<auth, page, inbox, store, http, reqs>>
    /\ ServerIdle

\* handleUsernameSubmit of the page behind UnverifiedOnlyRoute: a name that
\* fails the syntax rule is refused in the browser, any other is sent
handleUsernameSubmit(n) ==
    /\ auth.op = "none"
    /\ App(auth, "/auth/solvedac") = "children"
    /\ IF ~usernameRegex(n)
       THEN /\ last' = SubmitEvent(n)
            /\ ServerIdle
       ELSE IssueSupersede(ClientUser, n, 1)
    /\ ClientIdle

\* the answer of the step just taken, if it gave one, is on its way to the page
Post(box, ev) == IF ev = NoEvent THEN box ELSE box \cup {ev.out}

\* AuthContext.checkVerificationStatus after the answer of authService: a
\* verified answer makes it fetch the user (gcu: getCurrentUser returns user,
\* or throws), then SET_VERIFICATION_STATUS with result.data; its catch swallows
\* a throw and returns a failure
contextCheckVerificationStatus(state, result, gcu, user) ==
    IF result.success /\ result.status = "verified"
    THEN IF gcu = "throws"
         THEN [state |-> state, result |-> NoOut]
         ELSE [state |-> authReducer(
                             authReducer(state, [type |-> "UPDATE_USER", payload |-> user]),
                             [type |-> "SET_VERIFICATION_STATUS", payload |-> Data(result)]),
               result |-> result]
    ELSE [state |-> authReducer(state, [type |-> "SET_VERIFICATION_STATUS",
                                        payload |-> Data(result)]),
          result |-> result]

\* updateTimeLeft: the state it sets ...
updateTimeLeft(p, expiresAt, t) ==
    IF expiresAt - t <= 0
    THEN [p EXCEPT !.timeLeft = NULL, !.status = "expired"]
    ELSE [p EXCEPT !.timeLeft = expiresAt - t]

\* ... and whether it ends in the call of setIsPolling, which is not defined
setIsPollingThrows(expiresAt, t) == expiresAt - t <= 0

\* startCountdown: one more interval runs, and the ref holds it
startCountdown(p, expiresAt) ==
    [p EXCEPT !.timers = @ + 1, !.expiresAt = expiresAt]

\* VerifyAuth.checkStatus after its await, at browser clock t; the catch sets
\* failed after whatever the try had set
checkStatus(p, result, t) ==
    IF result.success
    THEN CASE result.status = "verified" ->
                [p EXCEPT !.status = "verified", !.navTimer = TRUE]
           [] result.status = "pending" ->
                LET p1 == [p EXCEPT !.status = "pending"]
                IN  IF result.expires_at # NULL
                    THEN IF setIsPollingThrows(result.expires_at, t)
                         THEN [updateTimeLeft(p1, result.expires_at, t)
                                 EXCEPT !.status = "failed"]
                         ELSE startCountdown(updateTimeLeft(p1, result.expires_at, t),
                                             result.expires_at)
                    ELSE p1
           [] result.status = "expired" -> [p EXCEPT !.status = "expired"]
           [] result.status = "failed" -> [p EXCEPT !.status = "failed"]
           [] OTHER -> [p EXCEPT !.status = "pending"]
    ELSE IF result.rateLimited
    THEN p
    ELSE [p EXCEPT !.status = "failed"]

\* the page opens with a code of the person's own and checks it at once
Mount(rid) ==
    /\ page.phase = "none"
    /\ auth.op = "none"
    /\ App(auth, "/auth/verify") = "children"
    /\ ownerOf[rid] = ClientUser
    /\ CheckStart(rid, 1)
    /\ page' = [NoPage EXCEPT !.phase = "mounted", !.rid = rid]
    /\ inbox' = Post(inbox, last')
    /\ auth' = auth
    /\ SessionIdle

\* the check-now button, shown while the status is pending or failed
handleManualCheck ==
    /\ page.phase = "mounted"
    /\ page.status \in {"pending", "failed"}
    /\ page.checks < MaxChecks
    /\ CheckStart(page.rid, 1)
    /\ page' = [page EXCEPT !.checks = @ + 1]
    /\ inbox' = Post(inbox, last')
    /\ auth' = auth
    /\ SessionIdle

\* the observer answers a check the page made
ObserverAnswers(o) ==
    /\ CheckFinish(1, o)
    /\ inbox' = Post(inbox, last')
    /\ UNCHANGED <<auth, page>>
    /\ SessionIdle

\* an answer arrives: AuthContext handles it, then the page; on a page that was
\* left the state setters do nothing, but startCountdown still starts its interval
Receive(r, gcu) ==
    /\ r \in inbox
    /\ gcu = "throws" => (r.success /\ r.status = "verified")
    /\ LET c == contextCheckVerificationStatus(
                    auth, r, gcu, UserObj(users[ClientUser].profile_verified))
       IN  /\ auth' = c.state
           /\ page' = IF page.phase = "mounted" THEN checkStatus(page, c.result, now)
                      ELSE IF page.phase = "left"
                      THEN [page EXCEPT !.timers = checkStatus(page, c.result, now).timers]
                      ELSE page
    /\ inbox' = inbox \ {r}
    /\ store' = IF r.success /\ r.status = "verified" /\ gcu = "ok"
                THEN [store EXCEPT !.user = UserObj(users[ClientUser].profile_verified)]
                ELSE store
    /\ last' = ReceiveEvent(r, page.status, auth.verificationStatus,
                            page.phase = "mounted", now)
    /\ UNCHANGED <<http, reqs, modal>>
    /\ ServerIdle

\* a countdown interval fires
CountdownTick ==
    /\ page.phase = "mounted"
    /\ page.timers > 0
    /\ page' = updateTimeLeft(page, page.expiresAt, now)
    /\ last' = CountdownEvent(page.status, page.expiresAt, now)
    /\ UNCHANGED <<auth, inbox>>
    /\ SessionIdle
    /\ ServerIdle

\* the page is left: navigate('/') after verified, or the retry button
LeavePage ==
    /\ page.phase = "mounted"
    /\ page.navTimer \/ page.status \in {"expired", "failed"}
    /\ page' = Unmounted(page)
    /\ last' = NoEvent
    /\ UNCHANGED <<auth, inbox>>
    /\ SessionIdle
    /\ ServerIdle

Next ==
    \/ \E u \in LoginUsers : FirstLogin(u) /\ ClientIdle
    \/ Tick /\ ClientIdle
    \/ cleanup_expired_sessions /\ ClientIdle
    \/ Sweep /\ ClientIdle
    \/ \E u \in UserIds, n \in Usernames : IssueSupersede(u, n, 2) /\ ClientIdle
    \/ \E k \in 1..2 : IssueInsert(k) /\ ClientIdle
    \/ \E rid \in ReqIds : CheckStart(rid, 1) /\ ClientIdle
    \/ \E o \in ObserverOutcomes : CheckFinish(1, o) /\ ClientIdle

\* two concurrent request-verification operations, one status-check caller
Spec == Init /\ [][Next]_vars

NextCheck ==
    \/ \E u \in LoginUsers : FirstLogin(u) /\ ClientIdle
    \/ Tick /\ ClientIdle
    \/ cleanup_expired_sessions /\ ClientIdle
    \/ Sweep /\ ClientIdle
    \/ \E u \in UserIds, n \in Usernames : IssueSupersede(u, n, 1) /\ ClientIdle
    \/ IssueInsert(1) /\ ClientIdle
    \/ \E rid \in ReqIds : CheckStart(rid, 2) /\ ClientIdle
    \/ \E k \in 1..2, o \in ObserverOutcomes : CheckFinish(k, o) /\ ClientIdle

\* one request-verification operation, two concurrent status-check callers
SpecCheck == Init /\ [][NextCheck]_vars

\* the clock keeps running and the periodic sweep keeps being scheduled
SpecLive ==
    /\ Init /\ [][Next]_vars
    /\ WF_vars(Tick /\ ClientIdle)
    /\ WF_vars(Sweep /\ ClientIdle)

NextClient ==
    \/ FirstLogin(ClientUser) /\ ClientIdle
    \/ Tick /\ ClientIdle
    \/ cleanup_expired_sessions /\ ClientIdle
    \/ Sweep /\ ClientIdle
    \/ IssueInsert(1) /\ ClientIdle
    \/ initializeAuth
    \/ handleGoogleLogin
    \/ \E ok \in BOOLEAN : LoginAnswered(ok)
    \/ handleLogout
    \/ Answered("logout", "ok")
    \/ LogoutDone
    \/ \E n \in Usernames : handleUsernameSubmit(n)
    \/ \E rid \in ReqIds : Mount(rid)
    \/ handleManualCheck
    \/ \E o \in ObserverOutcomes : ObserverAnswers(o)
    \/ \E r \in inbox, gcu \in {"ok", "throws"} : Receive(r, gcu)
    \/ CountdownTick
    \/ LeavePage

\* one browser: every request is issued and every status check is made by it
SpecClient == Init /\ [][NextClient]_vars

NextSession ==
    \/ FirstLogin(ClientUser) /\ ClientIdle
    \/ initializeAuth
    \/ handleGoogleLogin
    \/ \E ok \in BOOLEAN : LoginAnswered(ok)
    \/ handleLogout
    \/ LogoutDone
    \/ \E k \in Calls, o \in Answers : Answered(k, o)
    \/ \E k \in Calls, o \in Answers, hasUser \in BOOLEAN : RefreshAnswered(k, o, hasUser)
    \/ \E k \in Calls, o \in Answers : RetryAnswered(k, o)
    \/ getCurrentUserAnswered
    \/ Reload

\* one browser's session: logins, logouts, page loads, and the calls of
\* apiClient with their token refreshes; the answers of the server are free
SpecSession == Init /\ [][NextSession]_vars

\* every call is answered (apiClient's timeout is 30 s), every continuation
\* runs, and an assigned window.location.href loads the page
SpecSessionLive ==
    /\ Init /\ [][NextSession]_vars
    /\ WF_vars(initializeAuth)
    /\ WF_vars(\E ok \in BOOLEAN : LoginAnswered(ok))
    /\ WF_vars(LogoutDone)
    /\ WF_vars(\E k \in Calls, o \in Answers : Answered(k, o))
    /\ WF_vars(\E k \in Calls, o \in Answers, hasUser \in BOOLEAN :
                    RefreshAnswered(k, o, hasUser))
    /\ WF_vars(\E k \in Calls, o \in Answers : RetryAnswered(k, o))
    /\ WF_vars(getCurrentUserAnswered)
    /\ WF_vars(http.navigating /\ Reload)

NextModal ==
    \/ FirstLogin(ClientUser) /\ ClientIdle
    \/ IssueInsert(1) /\ ClientIdle
    \/ initializeAuth
    \/ handleGoogleLogin
    \/ \E ok \in BOOLEAN : LoginAnswered(ok)
    \/ handleLogout
    \/ Answered("logout", "ok")
    \/ LogoutDone
    \/ \E n \in Usernames : handleUsernameSubmit(n)
    \/ \E rid \in ReqIds : Mount(rid)
    \/ \E o \in ObserverOutcomes : ObserverAnswers(o)
    \/ \E r \in inbox, gcu \in {"ok", "throws"} : Receive(r, gcu)
    \/ LeavePage
    \/ \E type \in {"feedback", "solve"} : handleSubmit(type)
    \/ \E resp \in {"success", "nonsuccess", "throws"}, solved \in BOOLEAN :
          ModalAnswered(resp, solved)
    \/ handleClose

\* one browser whose user gets verified and then uses the submission modal of
\* the guide page; every request of the modal is answered or throws
SpecModal ==
    /\ Init /\ [][NextModal]_vars
    /\ WF_vars(\E resp \in {"success", "nonsuccess", "throws"}, solved \in BOOLEAN :
                    ModalAnswered(resp, solved))

(* ------------------------------- claims -------------------------------- *)

StatusOf(rs, id) == rs[id].status
LiveRow(id) == rows[id] # NoRow

\* C1: the only status changes of a verification request are pending -> verified,
\* pending -> expired and pending -> failed; a request whose status is verified,
\* expired or failed keeps that status in every later state (it is neither
\* rewritten nor removed), whatever issue, status-check, sweep or cleanup step runs.
C1_StatusMonotonic ==
    [][\A id \in ReqIds :
          /\ (LiveRow(id) /\ rows'[id] # NoRow /\ StatusOf(rows', id) # StatusOf(rows, id))
                => (StatusOf(rows, id) = "pending" /\ StatusOf(rows', id) \in Terminal)
          /\ (LiveRow(id) /\ StatusOf(rows, id) \in Terminal)
                => (rows'[id] # NoRow /\ StatusOf(rows', id) = StatusOf(rows, id))]_vars

\* C1 witness: a verified request and an expired request past its expiry are both
\* stored, so status checks, expiry and the cleanup's filter have all had rows to act on.
C1_Witness ==
    \E a, b \in ReqIds :
        /\ LiveRow(a) /\ StatusOf(rows, a) = "verified"
        /\ LiveRow(b) /\ StatusOf(rows, b) = "expired" /\ rows[b].expires_at < now

HasVerifiedRequest(u) ==
    \E id \in ReqIds : LiveRow(id) /\ rows[id].user_id = u /\ StatusOf(rows, id) = "verified"

\* C2 (as claimed): every user whose profile_verified flag is true owns a request
\* that reached verified; no seeded row or other path sets the flag.
C2_Original ==
    \A u \in UserIds :
        (users[u] # NoUser /\ users[u].profile_verified) => HasVerifiedRequest(u)

\* C2 (amended): every user other than the seeded test account whose
\* profile_verified flag is true owns a request that reached verified.
C2_FlagOnlyByVerification ==
    \A u \in LoginUsers :
        (users[u] # NoUser /\ users[u].profile_verified) => HasVerifiedRequest(u)

\* C2 witness: a user created by first login has been verified.
C2_Witness ==
    \E u \in LoginUsers : users[u] # NoUser /\ users[u].profile_verified

\* C3: a status check (admitted by the rate limiter) of a request that was pending
\* when its expires_at passed answers expired, whether or not the cleanup ran.
C3_LapsedReportsExpired ==
    (last.op = "check" /\ last.wasLapsed /\ ~last.over)
        => (last.out.success /\ last.out.status = "expired")

LivePending(u) ==
    {id \in ReqIds : LiveRow(id) /\ rows[id].user_id = u
                     /\ StatusOf(rows, id) = "pending" /\ ~Expired(rows[id], now)}

C6_VerifiedExactlyOnce ==
    /\ \A id \in ReqIds :
          /\ applied[id] <= 1
          /\ (applied[id] = 1) <=> (LiveRow(id) /\ StatusOf(rows, id) = "verified")
          /\ (applied[id] = 1) => users[rows[id].user_id].profile_verified
    /\ (last.op = "check" /\ last.observed = "found" /\ LiveRow(last.rid)
          /\ StatusOf(rows, last.rid) = "verified")
         => (last.out.success /\ last.out.status = "verified")

\* C6 witness: a caller that found the code answered verified although another
\* caller had written the transition.
C6_Witness ==
    /\ last.op = "check" /\ last.observed = "found" /\ ~last.wrote
    /\ last.out.status = "verified" /\ applied[last.rid] = 1

\* C7: no two stored requests carry the same verification code, and an issue
\* operation never returns a code that another stored request holds.
C7_CodesUnique ==
    /\ \A a, b \in ReqIds :
          (LiveRow(a) /\ LiveRow(b) /\ a # b)
             => rows[a].verification_code # rows[b].verification_code
    /\ (last.op = "issue" /\ last.result = "issued")
          => \A id \in ReqIds :
                (LiveRow(id) /\ id # last.rid) => rows[id].verification_code # last.code

\* C7 witness: a request was just issued while another request is stored.
C7_Witness ==
    /\ last.op = "issue" /\ last.result = "issued"
    /\ \E id \in ReqIds : LiveRow(id) /\ id # last.rid

\* C8: every stored request has expires_at = created_at + Window with Window
\* positive, so expires_at is strictly after created_at.
C8_ExpiryWindow ==
    \A id \in ReqIds :
        LiveRow(id) => /\ rows[id].expires_at = rows[id].created_at + Window
                       /\ rows[id].expires_at > rows[id].created_at

\* C8 witness: a request issued after the clock has advanced is stored.
C8_Witness ==
    \E id \in ReqIds : LiveRow(id) /\ rows[id].created_at > StartTime

\* C9: a status check (admitted by the rate limiter) of a request whose status is
\* verified, expired or failed changes neither the requests nor the users, does
\* not ask the observer, and answers the stored status.
C9_TerminalCheckIsReadOnly ==
    [][(last'.op = "check" /\ last'.wasTerminal # "none" /\ ~last'.over)
          => /\ rows' = rows
             /\ users' = users
             /\ last'.observed = "none"
             /\ last'.out.success
             /\ last'.out.status = last'.wasTerminal]_vars

\* C9 witness: a status check of a verified request has been answered.
C9_Witness ==
    last.op = "check" /\ last.wasTerminal = "verified" /\ ~last.over

\* C10: when the N status checks a code is allowed in the limit window have been
\* made, the next check in that window is answered RateLimited with a retry-after and
\* no status, and the client reports rateLimited with a retryAfter value.
C10_RateLimited ==
    (last.op = "check" /\ last.over)
        => /\ last.out.http = 429
           /\ ~last.out.success
           /\ last.out.status = "none"
           /\ last.out.rateLimited
           /\ last.out.retryAfter \in {LimitWindow, DefaultRetryAfter}

\* C10 witness: a check beyond the limit has been answered.
C10_Witness ==
    last.op = "check" /\ last.over /\ last.out.retryAfter = DefaultRetryAfter

\* C11: a status check answered RateLimited changes no stored request, and when
\* its answer arrives the status shown by VerifyAuth and the verificationStatus
\* held in AuthContext keep the values they had.
C11_RateLimitedIsNoTransition ==
    [][/\ (last'.op = "check" /\ last'.over) => rows' = rows
       /\ (last'.op = "receive" /\ last'.out.rateLimited)
             => /\ rows' = rows
                /\ page'.status = page.status
                /\ auth'.verificationStatus = auth.verificationStatus]_vars

\* C12: a transient failure of the observer changes no stored request or user
\* and is answered as an error without a status, and when that answer arrives
\* the page does not show failed.
C12_TransientIsNotFailed ==
    [][/\ (last'.op = "check" /\ last'.observed = "transient")
             => /\ rows' = rows
                /\ users' = users
                /\ ~last'.out.success
                /\ last'.out.status # "failed"
       /\ (last'.op = "receive" /\ last'.mounted /\ last'.out.http = 503)
             => page'.status # "failed"]_vars

\* the request a status check is about was pending and unexpired when the
\* observer's answer was applied
C13_Applies(rid) ==
    /\ last'.op = "check"
    /\ LiveRow(rid)
    /\ StatusOf(rows, rid) = "pending"
    /\ ~Expired(rows[rid], now)

C13_Absent(rid) ==
    /\ rows' = rows
    /\ last'.out.success
    /\ last'.out.status = "pending"

C13_NotFound(rid) ==
    /\ StatusOf(rows', rid) = "failed"
    /\ rows'[rid].failed_reason # ""
    /\ last'.out.success
    /\ last'.out.status = "failed"
    /\ last'.out.failed_reason # ""

C13_Found(rid) ==
    /\ StatusOf(rows', rid) = "verified"
    /\ last'.out.success
    /\ last'.out.status = "verified"

\* C13 (as claimed): for a pending, unexpired request, code found makes the
\* request verified, profile without the code leaves it pending with no error,
\* profile not found makes it failed with a reason.
C13_Original ==
    [][\A rid \in ReqIds :
          (C13_Applies(rid) /\ last'.rid = rid)
             => /\ last'.observed = "found" => C13_Found(rid)
                /\ last'.observed = "absent" => C13_Absent(rid)
                /\ last'.observed = "not_found" => C13_NotFound(rid)]_vars

\* C13 (amended): as claimed, except that code found makes the request verified
\* only when the external username is not linked to another user; when it is,
\* the write is rejected, nothing changes and an error is answered.
C13_ObserverOutcome ==
    [][\A rid \in ReqIds :
          (C13_Applies(rid) /\ last'.rid = rid)
             => /\ last'.observed = "found"
                     => IF UsernameUniqueViolation(users, rows[rid].user_id,
                                                   rows[rid].solvedac_username)
                        THEN /\ rows' = rows
                             /\ users' = users
                             /\ ~last'.out.success
                             /\ last'.out.http = 500
                        ELSE C13_Found(rid)
                /\ last'.observed = "absent" => C13_Absent(rid)
                /\ last'.observed = "not_found" => C13_NotFound(rid)]_vars

\* C13 witness: the code was found for a pending request whose username
\* another user holds, and the request is still pending.
C13_Witness ==
    /\ last.op = "check" /\ last.observed = "found" /\ last.out.http = 500
    /\ LiveRow(last.rid) /\ StatusOf(rows, last.rid) = "pending"

\* the syntax rule of usernames: letters, digits and underscore, 3 to 20 of them
C14_Letters ==
    {"a", "b", "c", "d", "e", "f", "g", "h", "i", "j", "k", "l", "m",
     "n", "o", "p", "q", "r", "s", "t", "u", "v", "w", "x", "y", "z",
     "A", "B", "C", "D", "E", "F", "G", "H", "I", "J", "K", "L", "M",
     "N", "O", "P", "Q", "R", "S", "T", "U", "V", "W", "X", "Y", "Z"}
C14_Digits == {"0", "1", "2", "3", "4", "5", "6", "7", "8", "9"}
C14_WellFormed(n) ==
    /\ Len(n) \in 3..20
    /\ \A i \in 1..Len(n) : n[i] \in C14_Letters \cup C14_Digits \cup {"_"}

\* C14: a request for verification with a username that fails the syntax rule
\* is refused with InvalidUsername and one for a verified user with
\* AlreadyVerified; a refused request creates no request and changes no stored
\* request or user, and no request is ever accepted or stored under a username
\* that fails the rule or accepted for a user who is verified.
C14_RejectedIssue ==
    [][/\ (last'.op = "issue" /\ last'.result \in {"InvalidUsername", "AlreadyVerified"})
             => /\ rows' = rows
                /\ users' = users
                /\ nextId' = nextId
                /\ isess' = isess
                /\ IF C14_WellFormed(last'.name)
                   THEN /\ last'.result = "AlreadyVerified"
                        /\ users[last'.user].profile_verified
                   ELSE last'.result = "InvalidUsername"
       /\ \A k \in 1..Len(isess') : C14_WellFormed(isess'[k].name)
       /\ Len(isess') > Len(isess)
             => ~users[isess'[Len(isess')].user].profile_verified
       /\ \A id \in ReqIds :
             rows'[id] # NoRow => C14_WellFormed(rows'[id].solvedac_username)]_vars

\* C14 witness: a request with an ill-formed username was refused for a user
\* who owns a stored request.
C14_Witness ==
    /\ last.op = "issue" /\ last.result = "InvalidUsername"
    /\ \E id \in ReqIds : LiveRow(id) /\ rows[id].user_id = last.user

\* C15: a stored request with status verified has verified_at set and an owner
\* whose profile_verified is true, and a status check answers verified only
\* when the request of the code is stored as verified in that way.
C15_Recorded(id) ==
    /\ LiveRow(id)
    /\ StatusOf(rows, id) = "verified"
    /\ rows[id].verified_at # NULL
    /\ users[rows[id].user_id] # NoUser
    /\ users[rows[id].user_id].profile_verified

C15_VerifiedIsRecorded ==
    /\ \A id \in ReqIds :
          (LiveRow(id) /\ StatusOf(rows, id) = "verified") => C15_Recorded(id)
    /\ (last.op = "check" /\ last.out.status = "verified")
          => \E id \in ReqIds :
                /\ C15_Recorded(id)
                /\ rows[id].verification_code = codeOf[last.rid]

\* C15 witness: a status check has just written the verified transition and
\* answered verified.
C15_Witness ==
    last.op = "check" /\ last.wrote /\ last.out.status = "verified"

\* C16: when an answer says pending with an expires_at that has passed at the
\* browser's clock, and when a countdown interval fires at or after expires_at,
\* the page shows expired.
C16_ExpiredNotFailed ==
    /\ (/\ last.op = "receive" /\ last.mounted
        /\ last.out.success /\ last.out.status = "pending"
        /\ last.out.expires_at # NULL /\ last.out.expires_at <= last.at)
          => page.status = "expired"
    /\ (last.op = "countdown" /\ last.expiresAt <= last.at)
          => page.status = "expired"

\* C17: under a clock that keeps running and a sweep that keeps being
\* scheduled, every pending request (whose expiry the clock can pass) is
\* eventually stored with status verified, expired or failed.
C17_EventuallyTerminal ==
    \A id \in ReqIds :
        (LiveRow(id) /\ StatusOf(rows, id) = "pending" /\ rows[id].expires_at < MaxTime)
            ~> (LiveRow(id) /\ StatusOf(rows, id) \in Terminal)

\* the user a row belongs to, before or after a step that stores it
C18_OwnerOf(id) == IF rows[id] # NoRow THEN rows[id].user_id ELSE rows'[id].user_id

C19_ProtectedRoute ==
    \A path \in VerifiedPaths :
        /\ App(auth, path) = "children"
              <=> (/\ ~auth.isLoading /\ auth.isAuthenticated
                   /\ auth.user.present /\ auth.user.profile_verified)
        /\ (~auth.isLoading /\ ~auth.isAuthenticated) => App(auth, path) = "/login"
        /\ (/\ ~auth.isLoading /\ auth.isAuthenticated
            /\ ~(auth.user.present /\ auth.user.profile_verified))
              => App(auth, path) = "/auth/solvedac"

\* C19 witness: the dashboard is rendered for a user whose verification the
\* browser has seen complete.
C19_Witness ==
    /\ App(auth, "/") = "children"
    /\ auth.verificationStatus.kind = "data"
    /\ auth.verificationStatus.status = "verified"

\* C20: while the VerifyAuth page stays mounted, a shown status of verified
\* stays verified.
C20_VerifiedStays ==
    [][(page.phase = "mounted" /\ page.status = "verified" /\ page'.phase = "mounted")
          => page'.status = "verified"]_vars

\* C21: at most one countdown interval of the VerifyAuth page runs at any time,
\* and none runs once the page is left.
C21_OneCountdown ==
    /\ page.timers <= 1
    /\ page.phase = "left" => page.timers = 0

\* C22: when the answer of a status check says verified, the page that made the
\* check shows verified and the context user has profile_verified true once the
\* answer is handled, whether or not the request for the current user succeeds.
C22_VerifiedIsShown ==
    (/\ last.op = "receive" /\ last.mounted
     /\ last.out.success /\ last.out.status = "verified")
        => /\ page.status = "verified"
           /\ isProfileVerified(auth)

\* the guarded routes of App
C28_GuardedPaths == {"/login", "/auth/solvedac", "/auth/verify"} \cup VerifiedPaths

\* the route that renders when the browser follows the guards' redirects from
\* path, or "cycle" when n redirects did not reach one
RECURSIVE C28_Follow(_, _, _)
C28_Follow(ctx, path, n) ==
    LET r == App(ctx, path)
    IN  IF r \in {"children", "spinner"} THEN path
        ELSE IF n = 0 THEN "cycle"
        ELSE C28_Follow(ctx, r, n - 1)

\* C28: once loading has finished, following the guards' redirects from any
\* guarded route reaches a route that renders its page; with more redirects than
\* there are guarded routes a route would repeat, so there is no redirect cycle.
C28_RedirectsEnd ==
    ~auth.isLoading =>
        \A path \in C28_GuardedPaths :
            LET end == C28_Follow(auth, path, Cardinality(C28_GuardedPaths))
            IN  /\ end \in C28_GuardedPaths
                /\ App(auth, end) = "children"

\* C28 witness: a logged-in, unverified user opens /login and is sent to / and
\* from there to /auth/solvedac, which renders.
C28_Witness ==
    /\ ~auth.isLoading
    /\ App(auth, "/login") = "/"
    /\ App(auth, "/") = "/auth/solvedac"
    /\ C28_Follow(auth, "/login", Cardinality(C28_GuardedPaths)) = "/auth/solvedac"

\* a user that carries an external username
C30_Linked(u) == users[u] # NoUser /\ users[u].solvedac_username # <<>>

\* C30: no two users carry the same external username, also after checks of two
\* users' requests for one username both found their codes.
C30_UniqueLink ==
    \A u, v \in UserIds :
        (u # v /\ C30_Linked(u) /\ C30_Linked(v))
            => users[u].solvedac_username # users[v].solvedac_username

\* C30 witness: the observer found the code of a pending request whose username
\* another user already carries, and the check wrote nothing.
C30_Witness ==
    /\ last.op = "check" /\ last.observed = "found"
    /\ ~last.wrote /\ last.out.http = 500
    /\ rows[last.rid].status = "pending"
    /\ \E v \in UserIds :
          /\ v # rows[last.rid].user_id
          /\ C30_Linked(v) /\ users[v].profile_verified
          /\ users[v].solvedac_username = rows[last.rid].solvedac_username

\* C23: for a call that was answered 401 at most one refresh call is made and
\* the call is sent again at most once, however many interceptors
\* setupAxiosInterceptors has registered; a 401 on the refresh call makes no
\* further refresh call.
C23_RefreshOnce ==
    \A k \in Calls : reqs[k].refreshes <= 1 /\ reqs[k].retries <= 1

\* C23 witness: with two interceptors registered, the refresh call made for a
\* call was answered 401 and the call has settled with that error after one
\* refresh call.
C23_Witness ==
    /\ last.op = "refresh" /\ ~last.ok
    /\ http.interceptors = MaxSetups
    /\ reqs[last.call].pc = "settled" /\ reqs[last.call].result = "401"
    /\ reqs[last.call].refreshes = 1

\* C24: at most one refresh call is in flight at a time, and a refresh call
\* that fails clears no tokens other than the ones it was made with.
C24_SingleRefresh ==
    /\ Cardinality({k \in Calls : reqs[k].pc = "refreshing"}) <= 1
    /\ (last.op = "refresh" /\ ~last.ok) => last.held \in {NULL, last.used}

\* C25: when handleLogout has ended, whatever its call answered, localStorage
\* holds no access token, no refresh token and no user, the default
\* Authorization header is gone, and the auth state has isAuthenticated false,
\* user null, verificationStatus null and isLoading false.
C25_LogoutClears ==
    last.op = "logout"
        => /\ store.accessToken = NULL /\ store.refreshToken = NULL
           /\ store.user = NullUser
           /\ http.header = NULL
           /\ ~auth.isAuthenticated /\ auth.user = NullUser
           /\ auth.verificationStatus = Null /\ ~auth.isLoading

\* C25 witness: a logout has ended whose call failed.
C25_Witness ==
    /\ last.op = "logout"
    /\ last.result \in {"401", "error"}

\* C26: once loading has ended, an auth state with isAuthenticated false has
\* user null and localStorage holds no user (an item that JSON.parse rejects
\* is not counted as one), whatever answers were still on their way when the
\* logout ran.
C26_LoggedOutHoldsNoUser ==
    (~auth.isLoading /\ ~auth.isAuthenticated)
        => (auth.user = NullUser /\ store.user \in {NullUser, Unparsable})

\* C27: whenever isLoading is true it becomes false later, in every run of the
\* initial auth check, the login and the logout.
C27_LoadingEnds == auth.isLoading ~> ~auth.isLoading

\* C27 witness: the initial auth check found a stored user that JSON.parse
\* rejects, and its catch has set isLoading false.
C27_Witness ==
    /\ http.isInitialized /\ http.interceptors = 1
    /\ store.accessToken # NULL /\ store.user = Unparsable
    /\ ~auth.isLoading /\ ~auth.isAuthenticated

\* C29: whenever the submission modal is open with status verifying, it later
\* shows success or error (or is gone with its page).
C29_ModalEnds ==
    (modal.isOpen /\ modal.status = "verifying")
        ~> (~modal.isOpen \/ modal.status \in {"success", "error"})
====
